---- MODULE Spec2Model ----
(***************************************************************************)
(* Workflow engine: WorkflowEngine (core/engine.js), the Bull queue it     *)
(* drives, and the node classes (nodes/implementations.js).                *)
(*                                                                         *)
(* JavaScript runs one handler at a time and switches handlers only at an  *)
(* await, so every action below is the synchronous stretch of code between *)
(* two awaits of one handler.                                              *)
(***************************************************************************)
EXTENDS Integers, Sequences, FiniteSets, TLC

VARIABLES
    workflows,   \* this.workflows : workflowId -> workflow
    executions,  \* this.executions : executionId -> execution
    nodes,       \* this.nodes : type -> NodeClass
    redis,       \* the store: [workflow : id -> JSON, execution : id -> JSON]
    queue,       \* the Bull queue 'workflow-execution': sequence of jobs
    emitted,     \* events emitted by the engine (EventEmitter.emit): event -> count
    uuid,        \* number of ids handed out by uuidv4()
    calls,       \* executeWorkflow calls in progress: executionId -> loop index
    restarts,    \* number of times the process was stopped and started again
    stopped,     \* the executions with a job queued or in flight at the last
                 \* stop: executionId -> node ids with a stored result then
    persisted,   \* <<executionId, status>> of every execution record the store
                 \* has accepted so far
    clients,     \* WebSocketHandler.clients : clientId -> subscriptions
    sockets,     \* the sockets accepted so far : clientId -> ws.readyState
    sent,        \* the messages passed to ws.send : <<clientId, message>>
    channels,    \* <<clientId, channel>> of the handled messages that named a
                 \* channel
    engineState, \* "running"; "closing" once shutdown() awaits queue.close();
                 \* "closed" once the queue and the store connection are closed
    cancelCalls, \* ids of the executions a caller asked the engine to cancel
    notFound     \* workflow ids for which executeWorkflow threw 'not found'

vars == <<workflows, executions, nodes, redis, queue, emitted, uuid, calls,
          restarts, stopped, persisted, clients, sockets, sent, channels,
          engineState, cancelCalls, notFound>>

----------------------------------------------------------------------------
(* Bounds of the model *)

MaxUuids == 2          \* ids handed out: workflows created plus executions started
MaxRestarts == 1       \* process restarts
MaxStoreNodes == 2     \* nodes of a workflow run while the store rejects writes
MaxClients == 1        \* WebSocket connections accepted
MaxWsNodes == 1        \* nodes of a workflow run while clients are connected
MaxRegisterNodes == 2  \* nodes of a workflow run while node types are registered

(* Program constants *)

attempts == 3          \* queueNode: { attempts: 3 }
maxConcurrency == 5    \* config.queue.concurrency

Undefined == "undefined"

----------------------------------------------------------------------------
(* Values *)

\* What node.execute resolves to: { success: true, ... }, or the value of
\* BaseNode.handleError(error), { success: false, error }
OkResult == "success:true"
ErrResult == "success:false"

\* the body of POST /workflows/:id/execute
initialData == [k \in {"payload"} |-> OkResult]

\* A node of a definition. config stands for the node's settings together
\* with what they make the outside world answer: an http node's url is up or
\* down, a python node's code exits 0 ("ok"), exits 1 ("exit1") or sometimes
\* runs into its timeout ("flaky").
NodeSpec(id, type, config) == [id |-> id, type |-> type, config |-> config]
Edge(s, t) == [source |-> s, target |-> t]

\* Definitions a client may submit to createWorkflow.
Definitions ==
    { [name |-> "single",
       nodes |-> <<NodeSpec("A", "python", "flaky")>>,
       edges |-> <<>>],
      [name |-> "linear",
       nodes |-> <<NodeSpec("A", "http", "down"), NodeSpec("B", "python", "flaky"),
                   NodeSpec("C", "http", "up")>>,
       edges |-> <<Edge("A", "B"), Edge("B", "C")>>],
      [name |-> "diamond",
       nodes |-> <<NodeSpec("A", "http", "up"), NodeSpec("B", "http", "up"),
                   NodeSpec("C", "http", "up"), NodeSpec("D", "http", "up")>>,
       edges |-> <<Edge("A", "B"), Edge("A", "C"), Edge("B", "D"), Edge("C", "D")>>],
      [name |-> "join",
       nodes |-> <<NodeSpec("A", "http", "up"), NodeSpec("B", "http", "up"),
                   NodeSpec("C", "python", "flaky")>>,
       edges |-> <<Edge("A", "C"), Edge("B", "C")>>],
      [name |-> "pair",
       nodes |-> <<NodeSpec("A", "python", "flaky"), NodeSpec("B", "http", "up")>>,
       edges |-> <<>>],
      [name |-> "cycle",
       nodes |-> <<NodeSpec("A", "http", "up"), NodeSpec("B", "http", "up")>>,
       edges |-> <<Edge("A", "B"), Edge("B", "A")>>],
      [name |-> "empty",
       nodes |-> <<>>,
       edges |-> <<>>],
      [name |-> "dangling",
       nodes |-> <<NodeSpec("A", "http", "down")>>,
       edges |-> <<Edge("A", "Z")>>],
      [name |-> "duplicate",
       nodes |-> <<NodeSpec("A", "http", "up"), NodeSpec("A", "python", "ok")>>,
       edges |-> <<>>],
      [name |-> "reversed",
       nodes |-> <<NodeSpec("B", "http", "up"), NodeSpec("A", "http", "up")>>,
       edges |-> <<>>],
      [name |-> "unknown",
       nodes |-> <<NodeSpec("A", "http", "up"), NodeSpec("B", "email", "ok")>>,
       edges |-> <<Edge("A", "B")>>] }

\* The node types index.js registers at start-up.
Registry ==
    [type \in {"http", "database", "python", "conditional", "transformer"} |->
        CASE type = "http" -> "HTTPNode"
          [] type = "database" -> "DatabaseNode"
          [] type = "python" -> "PythonNode"
          [] type = "conditional" -> "ConditionalNode"
          [] type = "transformer" -> "TransformerNode"]

----------------------------------------------------------------------------
(* Helpers over sequences and maps *)

\* Map.set / obj[key] = value
MapSet(m, k, v) == [x \in (DOMAIN m) \cup {k} |-> IF x = k THEN v ELSE m[x]]

EmptyMap == [x \in {} |-> Undefined]

NodeIds(workflow) == {workflow.nodes[i].id : i \in 1..Len(workflow.nodes)}

\* workflow.nodes.find(n => n.id === nodeId): index of the first match, 0 if none
FindNode(workflow, nodeId) ==
    LET hits == {i \in 1..Len(workflow.nodes) : workflow.nodes[i].id = nodeId}
    IN  IF hits = {} THEN 0 ELSE CHOOSE i \in hits : \A k \in hits : i <= k

\* workflow.edges.filter(e => e.target === nodeId).map(e => e.source)
Dependencies(workflow, nodeId) ==
    {workflow.edges[i].source :
        i \in {k \in 1..Len(workflow.edges) : workflow.edges[k].target = nodeId}}

----------------------------------------------------------------------------
(* The engine *)

\* Server.initialize: the engine's constructor (empty maps, an empty queue and
\* store), then the registration of the node types
Init ==
    /\ workflows = EmptyMap
    /\ executions = EmptyMap
    /\ nodes = Registry
    /\ redis = [workflow |-> EmptyMap, execution |-> EmptyMap]
    /\ persisted = {}
    /\ clients = EmptyMap
    /\ sockets = EmptyMap
    /\ sent = {}
    /\ channels = {}
    /\ engineState = "running"
    /\ cancelCalls = {}
    /\ notFound = {}
    /\ queue = <<>>
    /\ emitted = EmptyMap
    /\ uuid = 0
    /\ calls = EmptyMap
    /\ restarts = 0
    /\ stopped = EmptyMap

\* registerNode(type, NodeClass)
registerNode(type, NodeClass) ==
    /\ nodes' = MapSet(nodes, type, NodeClass)
    /\ UNCHANGED <<workflows, executions, redis, queue, emitted, uuid, calls, restarts, stopped, persisted, clients, sockets, sent, channels, engineState, cancelCalls, notFound>>

\* createWorkflow(definition)
createWorkflow(definition) ==
    /\ uuid < MaxUuids
    /\ LET workflowId == uuid + 1
           workflow == [id |-> workflowId,
                        name |-> definition.name,
                        nodes |-> definition.nodes,
                        edges |-> definition.edges,
                        status |-> "active"]
       IN  /\ workflows' = MapSet(workflows, workflowId, workflow)
           /\ redis' = [redis EXCEPT !.workflow = MapSet(@, workflowId, workflow)]
           /\ uuid' = workflowId
    /\ UNCHANGED <<executions, nodes, queue, emitted, calls, restarts, stopped, persisted, clients, sockets, sent, channels, engineState, cancelCalls, notFound>>

\* the handler's local 'node' before new NodeClass(nodeConfig.config)
NoNode == [NodeClass |-> Undefined, config |-> Undefined]

\* queueNode(workflowId, executionId, nodeId, input): the job queue.add creates
NewJob(workflowId, executionId, nodeId, input) ==
    [data |-> [workflowId |-> workflowId, executionId |-> executionId,
               nodeId |-> nodeId, input |-> input],
     attemptsMade |-> 0,
     state |-> "waiting",
     pc |-> "idle",
     node |-> NoNode,
     idx |-> 0,
     result |-> Undefined]

queueNode(q, workflowId, executionId, nodeId, input) ==
    Append(q, NewJob(workflowId, executionId, nodeId, input))

\* executeWorkflow: workflow.nodes.filter(node => !workflow.edges.some(...)),
\* as the indices of the start nodes in definition order
RECURSIVE StartNodesFrom(_, _)
StartNodesFrom(workflow, i) ==
    IF i > Len(workflow.nodes) THEN <<>>
    ELSE IF Dependencies(workflow, workflow.nodes[i].id) = {}
         THEN <<workflow.nodes[i].id>> \o StartNodesFrom(workflow, i + 1)
         ELSE StartNodesFrom(workflow, i + 1)

\* the start nodes cut down to the first one
StartNodes_FirstOnly(workflow) ==
    IF StartNodesFrom(workflow, 1) = <<>> THEN <<>>
    ELSE <<StartNodesFrom(workflow, 1)[1]>>

\* every node taken as a start node
StartNodes_All(workflow) ==
    [i \in 1..Len(workflow.nodes) |-> workflow.nodes[i].id]

\* the first node taken as start node when every node has an incoming edge
StartNodes_OrFirst(workflow) ==
    IF StartNodesFrom(workflow, 1) = <<>> /\ Len(workflow.nodes) > 0
    THEN <<workflow.nodes[1].id>>
    ELSE StartNodesFrom(workflow, 1)

StartNodes(workflow) == StartNodesFrom(workflow, 1)

\* executeWorkflow(workflowId, initialData), up to its first await
executeWorkflow(workflowId) ==
    /\ uuid < MaxUuids
    /\ workflowId \in DOMAIN workflows
    /\ LET executionId == uuid + 1
           execution == [id |-> executionId,
                         workflowId |-> workflowId,
                         status |-> "running",
                         data |-> initialData,
                         nodeResults |-> EmptyMap,
                         error |-> Undefined,
                         endTime |-> Undefined]
       IN  /\ executions' = MapSet(executions, executionId, execution)
           /\ redis' = [redis EXCEPT !.execution = MapSet(@, executionId, execution)]
           /\ persisted' = persisted \cup {<<execution.id, execution.status>>}
           /\ calls' = MapSet(calls, executionId, 1)
           /\ uuid' = executionId
    /\ UNCHANGED <<workflows, nodes, queue, emitted, restarts, stopped, clients, sockets, sent, channels, engineState, cancelCalls, notFound>>

\* executeWorkflow, resumed after an await: queue the next start node, or return
executeWorkflowResume(executionId) ==
    /\ executionId \in DOMAIN calls
    /\ LET workflowId == executions[executionId].workflowId
           startNodes == StartNodes(workflows[workflowId])
           i == calls[executionId]
       IN  IF i <= Len(startNodes)
           THEN /\ queue' = queueNode(queue, workflowId, executionId,
                                      startNodes[i], initialData)
                /\ calls' = [calls EXCEPT ![executionId] = i + 1]
           ELSE /\ calls' = [e \in (DOMAIN calls) \ {executionId} |-> calls[e]]
                /\ UNCHANGED queue
    /\ UNCHANGED <<workflows, executions, nodes, redis, emitted, uuid, restarts, stopped, persisted, clients, sockets, sent, channels, engineState, cancelCalls, notFound>>

----------------------------------------------------------------------------
(* Node classes: what execute(input, context) can do *)

\* PythonNode.execute returns a promise that rejects on timeout, on a nonzero
\* exit code and on unparsable output; the other classes catch every error
\* and resolve to handleError(error).
Outcomes(NodeClass, config) ==
    IF NodeClass = "PythonNode"
    THEN CASE config = "ok" -> {"resolve"}
           [] config = "exit1" -> {"reject"}
           [] OTHER -> {"resolve", "reject"}
    ELSE IF config = "down" THEN {"handleError"} ELSE {"resolve"}

----------------------------------------------------------------------------
(* The queue handler: executeNode, one action per stretch between awaits *)

Event(type, executionId, nodeId) ==
    [type |-> type, executionId |-> executionId,
     workflowId |-> Undefined, nodeId |-> nodeId]

\* this.emit(type, payload)
Emit(e) == IF e \in DOMAIN emitted THEN [emitted EXCEPT ![e] = @ + 1]
           ELSE MapSet(emitted, e, 1)

\* ws.readyState
OPEN == 1
CLOSING == 2
CLOSED == 3

\* the template literals `execution:${executionId}` and `workflow:${workflowId}`;
\* an execution id is a number of the model, a workflow id is text
executionKey(executionId) == "execution:" \o ToString(executionId)
workflowKey(workflowId) == "workflow:" \o workflowId

\* broadcast: shouldSend (websocket.js lines 121-124)
shouldSend(subscriptions, data) ==
    \/ executionKey(data.executionId) \in subscriptions
    \/ workflowKey(data.workflowId) \in subscriptions
    \/ "*" \in subscriptions

\* WebSocketHandler.broadcast(event, data), run by the listeners of
\* setupEngineListeners inside this.emit: the messages passed to ws.send
broadcast(data) ==
    sent \cup {<<clientId, data>> :
                  clientId \in {c \in DOMAIN clients :
                                   /\ shouldSend(clients[c], data)
                                   /\ sockets[c] = OPEN}}

Active == {j \in 1..Len(queue) : queue[j].state = "active"}

\* allDependenciesMet with some() in place of every()
allDependenciesMet_Some(dependencies, nodeResults) ==
    dependencies \cap DOMAIN nodeResults # {}

\* allDependenciesMet: dependencies.every(depId => nodeResults.hasOwnProperty(depId))
allDependenciesMet(dependencies, nodeResults) ==
    dependencies \subseteq DOMAIN nodeResults

\* mergedInput keeping the result of one dependency only
mergedInput_Last(dependencies, nodeResults) ==
    LET last == CHOOSE depId \in dependencies : TRUE
    IN  [depId \in {last} |->
            IF depId \in DOMAIN nodeResults THEN nodeResults[depId] ELSE Undefined]

\* mergedInput: dependencies.reduce((acc, depId) => ({...acc, [depId]: ...}), {})
mergedInput(dependencies, nodeResults) ==
    [depId \in dependencies |->
        IF depId \in DOMAIN nodeResults THEN nodeResults[depId] ELSE Undefined]

\* allNodesExecuted: workflow.nodes.every(node => nodeResults.hasOwnProperty(node.id))
allNodesExecuted(workflow, nodeResults) ==
    NodeIds(workflow) \subseteq DOMAIN nodeResults

\* queue.process picks a job up and calls executeNode, which runs to the
\* await of node.execute or throws before the try block
executeNode(j) ==
    /\ j \in 1..Len(queue)
    /\ engineState = "running"
    /\ queue[j].state \in {"waiting", "delayed"}
    /\ Cardinality(Active) < maxConcurrency
    /\ LET d == queue[j].data
           found == d.workflowId \in DOMAIN workflows
           n == IF found THEN FindNode(workflows[d.workflowId], d.nodeId) ELSE 0
           type == IF n # 0 THEN workflows[d.workflowId].nodes[n].type ELSE Undefined
       IN  IF n # 0 /\ type \in DOMAIN nodes
           THEN queue' = [queue EXCEPT
                            ![j].state = "active", ![j].pc = "execute",
                            ![j].node = [NodeClass |-> nodes[type],
                                         config |-> workflows[d.workflowId].nodes[n].config]]
           ELSE queue' = [queue EXCEPT ![j].state = "active", ![j].pc = "thrown"]
    /\ UNCHANGED <<workflows, executions, nodes, redis, emitted, uuid, calls, restarts, stopped, persisted, clients, sockets, sent, channels, engineState, cancelCalls, notFound>>

\* executeNodeStore replacing nodeResults by the one new entry
executeNodeStore_Fresh(j, result) ==
    /\ j \in 1..Len(queue)
    /\ queue[j].pc = "execute"
    /\ LET d == queue[j].data
           execution == [executions[d.executionId] EXCEPT
                            !.nodeResults = MapSet(EmptyMap, d.nodeId, result)]
       IN  /\ executions' = [executions EXCEPT ![d.executionId] = execution]
           /\ redis' = [redis EXCEPT !.execution = MapSet(@, d.executionId, execution)]
           /\ persisted' = persisted \cup {<<execution.id, execution.status>>}
    /\ queue' = [queue EXCEPT ![j].pc = "next", ![j].idx = 1, ![j].result = result]
    /\ UNCHANGED <<workflows, nodes, emitted, uuid, calls, restarts, stopped, clients, sockets, sent, channels, engineState, cancelCalls, notFound>>

\* executeNodeStore without the write of line 150
executeNodeStore_Unsaved(j, result) ==
    /\ j \in 1..Len(queue)
    /\ queue[j].pc = "execute"
    /\ LET d == queue[j].data
       IN  executions' = [executions EXCEPT
                            ![d.executionId].nodeResults = MapSet(@, d.nodeId, result)]
    /\ queue' = [queue EXCEPT ![j].pc = "next", ![j].idx = 1, ![j].result = result]
    /\ UNCHANGED <<workflows, nodes, redis, emitted, uuid, calls, restarts, stopped, persisted, clients, sockets, sent, channels, engineState, cancelCalls, notFound>>

\* node.execute resolved: store the result (lines 148-150)
executeNodeStore(j, result) ==
    /\ j \in 1..Len(queue)
    /\ queue[j].pc = "execute"
    /\ LET d == queue[j].data
           execution == [executions[d.executionId] EXCEPT
                            !.nodeResults = MapSet(@, d.nodeId, result)]
       IN  /\ executions' = [executions EXCEPT ![d.executionId] = execution]
           /\ redis' = [redis EXCEPT !.execution = MapSet(@, d.executionId, execution)]
           /\ persisted' = persisted \cup {<<execution.id, execution.status>>}
    /\ queue' = [queue EXCEPT ![j].pc = "next", ![j].idx = 1, ![j].result = result]
    /\ UNCHANGED <<workflows, nodes, emitted, uuid, calls, restarts, stopped, clients, sockets, sent, channels, engineState, cancelCalls, notFound>>

\* the catch block dropping the results recorded so far
executeNodeCatch_Cleared(j) ==
    /\ j \in 1..Len(queue)
    /\ queue[j].pc = "execute"
    /\ LET d == queue[j].data
           execution == [executions[d.executionId] EXCEPT
                            !.status = "failed", !.error = "message",
                            !.nodeResults = EmptyMap]
       IN  /\ executions' = [executions EXCEPT ![d.executionId] = execution]
           /\ redis' = [redis EXCEPT !.execution = MapSet(@, d.executionId, execution)]
           /\ persisted' = persisted \cup {<<execution.id, execution.status>>}
    /\ queue' = [queue EXCEPT ![j].pc = "thrown"]
    /\ UNCHANGED <<workflows, nodes, emitted, uuid, calls, restarts, stopped, clients, sockets, sent, channels, engineState, cancelCalls, notFound>>

\* the catch block marking every execution of the job's workflow as failed
executeNodeCatch_All(j) ==
    /\ j \in 1..Len(queue)
    /\ queue[j].pc = "execute"
    /\ LET d == queue[j].data
           failed == [e \in DOMAIN executions |->
                        IF executions[e].workflowId = d.workflowId
                        THEN [executions[e] EXCEPT !.status = "failed",
                                                   !.error = "message"]
                        ELSE executions[e]]
       IN  /\ executions' = failed
           /\ redis' = [redis EXCEPT
                  !.execution = MapSet(@, d.executionId, failed[d.executionId])]
           /\ persisted' = persisted \cup {<<d.executionId, "failed">>}
    /\ queue' = [queue EXCEPT ![j].pc = "thrown"]
    /\ UNCHANGED <<workflows, nodes, emitted, uuid, calls, restarts, stopped, clients, sockets, sent, channels, engineState, cancelCalls, notFound>>

\* node.execute rejected: the catch block (lines 191-196), up to its await
executeNodeCatch(j) ==
    /\ j \in 1..Len(queue)
    /\ queue[j].pc = "execute"
    /\ LET d == queue[j].data
           execution == [executions[d.executionId] EXCEPT
                            !.status = "failed", !.error = "message"]
       IN  /\ executions' = [executions EXCEPT ![d.executionId] = execution]
           /\ redis' = [redis EXCEPT !.execution = MapSet(@, d.executionId, execution)]
           /\ persisted' = persisted \cup {<<execution.id, execution.status>>}
    /\ queue' = [queue EXCEPT ![j].pc = "thrown"]
    /\ UNCHANGED <<workflows, nodes, emitted, uuid, calls, restarts, stopped, clients, sockets, sent, channels, engineState, cancelCalls, notFound>>

\* The edges of the loop 'for (const edge of nextEdges)' from index idx on
\* whose target is queued: the edge leaves nodeId, its target is a node of the
\* workflow and all dependencies of the target are met.
NextEdges(workflow, nodeResults, nodeId, idx) ==
    {i \in idx..Len(workflow.edges) :
        /\ workflow.edges[i].source = nodeId
        /\ FindNode(workflow, workflow.edges[i].target) # 0
        /\ allDependenciesMet(Dependencies(workflow, workflow.edges[i].target),
                              nodeResults)}

\* executeNode resumed after an await inside the try block: the loop over
\* nextEdges runs to its next queueNode; when the loop is over, the
\* completion check runs (lines 152-188)
executeNodeNext(j) ==
    /\ j \in 1..Len(queue)
    /\ queue[j].pc = "next"
    /\ LET d == queue[j].data
           workflow == workflows[d.workflowId]
           execution == executions[d.executionId]
           hits == NextEdges(workflow, execution.nodeResults, d.nodeId, queue[j].idx)
       IN  IF hits # {}
           THEN LET i == CHOOSE k \in hits : \A h \in hits : k <= h
                    target == workflow.edges[i].target
                    input == mergedInput(Dependencies(workflow, target),
                                         execution.nodeResults)
                IN  /\ queue' = queueNode([queue EXCEPT ![j].idx = i + 1],
                                          d.workflowId, d.executionId, target, input)
                    /\ UNCHANGED <<executions, redis, persisted>>
           ELSE IF allNodesExecuted(workflow, execution.nodeResults)
                THEN LET completed == [execution EXCEPT !.status = "completed",
                                                        !.endTime = "set"]
                     IN  /\ executions' = [executions EXCEPT ![d.executionId] = completed]
                         /\ redis' = [redis EXCEPT
                                !.execution = MapSet(@, d.executionId, completed)]
                         /\ persisted' = persisted \cup {<<completed.id, completed.status>>}
                         /\ queue' = [queue EXCEPT ![j].pc = "completed"]
                ELSE /\ queue' = [queue EXCEPT ![j].pc = "return"]
                     /\ UNCHANGED <<executions, redis, persisted>>
    /\ UNCHANGED <<workflows, nodes, emitted, uuid, calls, restarts, stopped, clients, sockets, sent, channels, engineState, cancelCalls, notFound>>

\* after the await of line 186: emit workflow:completed (line 187)
executeNodeCompleted(j) ==
    /\ j \in 1..Len(queue)
    /\ queue[j].pc = "completed"
    /\ emitted' = Emit(Event("workflow:completed", queue[j].data.executionId, Undefined))
    /\ sent' = broadcast(Event("workflow:completed", queue[j].data.executionId, Undefined))
    /\ queue' = [queue EXCEPT ![j].pc = "return"]
    /\ UNCHANGED <<workflows, executions, nodes, redis, uuid, calls, restarts, stopped, persisted, clients, sockets, channels, engineState, cancelCalls, notFound>>

\* the job completed, and node:completed emitted, while the handler has yet
\* to emit workflow:completed
onCompleted_Early(j) ==
    /\ j \in 1..Len(queue)
    /\ queue[j].pc \in {"return", "completed"}
    /\ queue' = [queue EXCEPT ![j].state = "completed",
                              ![j].pc = IF @ = "completed" THEN @ ELSE "idle"]
    /\ emitted' = Emit(Event("node:completed", queue[j].data.executionId,
                               queue[j].data.nodeId))
    /\ sent' = broadcast(Event("node:completed", queue[j].data.executionId,
                               queue[j].data.nodeId))
    /\ UNCHANGED <<workflows, executions, nodes, redis, uuid, calls, restarts, stopped, persisted, clients, sockets, channels, engineState, cancelCalls, notFound>>

\* the handler returned: Bull completes the job, queue.on('completed') emits
onCompleted(j) ==
    /\ j \in 1..Len(queue)
    /\ queue[j].pc = "return"
    /\ queue' = [queue EXCEPT ![j].state = "completed", ![j].pc = "idle"]
    /\ emitted' = Emit(Event("node:completed", queue[j].data.executionId,
                               queue[j].data.nodeId))
    /\ sent' = broadcast(Event("node:completed", queue[j].data.executionId,
                               queue[j].data.nodeId))
    /\ UNCHANGED <<workflows, executions, nodes, redis, uuid, calls, restarts, stopped, persisted, clients, sockets, channels, engineState, cancelCalls, notFound>>

\* onFailed retrying once more than the attempts allow
onFailed_OneMore(j) ==
    /\ j \in 1..Len(queue)
    /\ queue[j].pc = "thrown"
    /\ queue' = [queue EXCEPT
                    ![j].attemptsMade = @ + 1,
                    ![j].state = IF queue[j].attemptsMade + 1 <= attempts
                                 THEN "delayed" ELSE "failed",
                    ![j].pc = "idle"]
    /\ emitted' = Emit(Event("node:failed", queue[j].data.executionId,
                               queue[j].data.nodeId))
    /\ sent' = broadcast(Event("node:failed", queue[j].data.executionId,
                               queue[j].data.nodeId))
    /\ UNCHANGED <<workflows, executions, nodes, redis, uuid, calls, restarts, stopped, persisted, clients, sockets, channels, engineState, cancelCalls, notFound>>

\* the handler threw: Bull counts the attempt and either delays the job for a
\* retry or fails it; queue.on('failed') emits
onFailed(j) ==
    /\ j \in 1..Len(queue)
    /\ queue[j].pc = "thrown"
    /\ queue' = [queue EXCEPT
                    ![j].attemptsMade = @ + 1,
                    ![j].state = IF queue[j].attemptsMade + 1 < attempts
                                 THEN "delayed" ELSE "failed",
                    ![j].pc = "idle"]
    /\ emitted' = Emit(Event("node:failed", queue[j].data.executionId,
                               queue[j].data.nodeId))
    /\ sent' = broadcast(Event("node:failed", queue[j].data.executionId,
                               queue[j].data.nodeId))
    /\ UNCHANGED <<workflows, executions, nodes, redis, uuid, calls, restarts, stopped, persisted, clients, sockets, channels, engineState, cancelCalls, notFound>>

----------------------------------------------------------------------------
(* Specification *)

Jobs == 1..Len(queue)

Worker(j) ==
    \/ executeNode(j)
    \/ /\ "resolve" \in Outcomes(queue[j].node.NodeClass, queue[j].node.config)
       /\ executeNodeStore(j, OkResult)
    \/ /\ "handleError" \in Outcomes(queue[j].node.NodeClass, queue[j].node.config)
       /\ executeNodeStore(j, ErrResult)
    \/ /\ "reject" \in Outcomes(queue[j].node.NodeClass, queue[j].node.config)
       /\ executeNodeCatch(j)
    \/ executeNodeNext(j)
    \/ executeNodeCompleted(j)
    \/ onCompleted(j)
    \/ onFailed(j)

Next ==
    \/ \E definition \in Definitions : createWorkflow(definition)
    \/ \E workflowId \in DOMAIN workflows : executeWorkflow(workflowId)
    \/ \E executionId \in DOMAIN calls : executeWorkflowResume(executionId)
    \/ \E j \in Jobs : Worker(j)

Spec == Init /\ [][Next]_vars

----------------------------------------------------------------------------
(* Process stop and restart on the same queue and store *)

\* The process dies and a fresh one runs Server.initialize: the constructor
\* makes new empty maps, index.js registers the node types again, and the
\* queue hands the jobs that were in flight (stalled) out again. The store
\* and the queue keep their content.
restart ==
    /\ restarts < MaxRestarts
    /\ restarts' = restarts + 1
    /\ stopped' = [e \in {queue[j].data.executionId :
                              j \in {k \in 1..Len(queue) :
                                  queue[k].state \in {"waiting", "delayed", "active"}}}
                      |-> DOMAIN redis.execution[e].nodeResults]
    /\ workflows' = EmptyMap
    /\ executions' = EmptyMap
    /\ nodes' = Registry
    /\ calls' = EmptyMap
    /\ queue' = [j \in 1..Len(queue) |->
                    IF queue[j].state = "active"
                    THEN [queue[j] EXCEPT !.state = "waiting", !.pc = "idle",
                                          !.node = NoNode, !.idx = 0,
                                          !.result = Undefined]
                    ELSE queue[j]]
    /\ clients' = EmptyMap
    /\ sockets' = [clientId \in DOMAIN sockets |-> CLOSED]
    /\ engineState' = "running"
    /\ UNCHANGED <<redis, emitted, uuid, persisted, sent, channels, cancelCalls, notFound>>

CrashNext == Next \/ restart

CrashSpec == Init /\ [][CrashNext]_vars

----------------------------------------------------------------------------
(* Fair scheduling, every node succeeding within its allowed attempts *)

\* as Worker, but node.execute does not reject on the job's last attempt
LiveWorker(j) ==
    \/ executeNode(j)
    \/ /\ "resolve" \in Outcomes(queue[j].node.NodeClass, queue[j].node.config)
       /\ executeNodeStore(j, OkResult)
    \/ /\ "handleError" \in Outcomes(queue[j].node.NodeClass, queue[j].node.config)
       /\ executeNodeStore(j, ErrResult)
    \/ /\ "reject" \in Outcomes(queue[j].node.NodeClass, queue[j].node.config)
       /\ queue[j].attemptsMade + 1 < attempts
       /\ executeNodeCatch(j)
    \/ executeNodeNext(j)
    \/ executeNodeCompleted(j)
    \/ onCompleted(j)
    \/ onFailed(j)

LiveNext ==
    \/ \E definition \in Definitions : createWorkflow(definition)
    \/ \E workflowId \in DOMAIN workflows : executeWorkflow(workflowId)
    \/ \E executionId \in DOMAIN calls : executeWorkflowResume(executionId)
    \/ \E j \in Jobs : LiveWorker(j)

\* The event loop runs every continuation that is ready, and the queue's
\* workers take every job that is due.
LiveSpec ==
    /\ Init
    /\ [][LiveNext]_vars
    /\ WF_vars(\E executionId \in DOMAIN calls : executeWorkflowResume(executionId))
    /\ WF_vars(\E j \in Jobs : LiveWorker(j))

----------------------------------------------------------------------------
(* The store rejecting a write: 'await this.redis.set(...)' throws *)

\* the workflows created while the store may reject writes
StoreDefinitions ==
    {definition \in Definitions : Len(definition.nodes) <= MaxStoreNodes}

\* executeWorkflow whose write of the new record (line 100) is rejected: the
\* record is already in this.executions (line 99) and the call throws
executeWorkflowStoreFailed(workflowId) ==
    /\ uuid < MaxUuids
    /\ workflowId \in DOMAIN workflows
    /\ LET executionId == uuid + 1
           execution == [id |-> executionId,
                         workflowId |-> workflowId,
                         status |-> "running",
                         data |-> initialData,
                         nodeResults |-> EmptyMap,
                         error |-> Undefined,
                         endTime |-> Undefined]
       IN  /\ executions' = MapSet(executions, executionId, execution)
           /\ uuid' = executionId
    /\ UNCHANGED <<workflows, nodes, redis, queue, emitted, calls, restarts, stopped, persisted, clients, sockets, sent, channels, engineState, cancelCalls, notFound>>

\* node.execute resolved and the write of line 150 is rejected: line 149 has
\* put the result in the record, control goes to the catch block
executeNodeStoreFailed(j, result) ==
    /\ j \in 1..Len(queue)
    /\ queue[j].pc = "execute"
    /\ LET d == queue[j].data
       IN  executions' = [executions EXCEPT
                            ![d.executionId].nodeResults = MapSet(@, d.nodeId, result)]
    /\ queue' = [queue EXCEPT ![j].pc = "catch"]
    /\ UNCHANGED <<workflows, nodes, redis, emitted, uuid, calls, restarts, stopped, persisted, clients, sockets, sent, channels, engineState, cancelCalls, notFound>>

\* the write of the completed record (line 186) is rejected: lines 184-185
\* have changed the record, control goes to the catch block
executeNodeNextStoreFailed(j) ==
    /\ j \in 1..Len(queue)
    /\ queue[j].pc = "next"
    /\ LET d == queue[j].data
           workflow == workflows[d.workflowId]
           execution == executions[d.executionId]
       IN  /\ NextEdges(workflow, execution.nodeResults, d.nodeId, queue[j].idx) = {}
           /\ allNodesExecuted(workflow, execution.nodeResults)
           /\ executions' = [executions EXCEPT
                                ![d.executionId].status = "completed",
                                ![d.executionId].endTime = "set"]
    /\ queue' = [queue EXCEPT ![j].pc = "catch"]
    /\ UNCHANGED <<workflows, nodes, redis, emitted, uuid, calls, restarts, stopped, persisted, clients, sockets, sent, channels, engineState, cancelCalls, notFound>>

\* the catch block (lines 191-196) entered from a rejected write; its own
\* write is accepted (stored) or rejected, and the handler throws either way
executeNodeCatchStore(j, stored) ==
    /\ j \in 1..Len(queue)
    /\ \/ queue[j].pc = "catch"
       \/ /\ queue[j].pc = "execute"
          /\ ~stored
          /\ "reject" \in Outcomes(queue[j].node.NodeClass, queue[j].node.config)
    /\ LET d == queue[j].data
           execution == [executions[d.executionId] EXCEPT
                            !.status = "failed", !.error = "message"]
       IN  /\ executions' = [executions EXCEPT ![d.executionId] = execution]
           /\ IF stored
              THEN /\ redis' = [redis EXCEPT
                          !.execution = MapSet(@, d.executionId, execution)]
                   /\ persisted' = persisted \cup {<<execution.id, execution.status>>}
              ELSE UNCHANGED <<redis, persisted>>
    /\ queue' = [queue EXCEPT ![j].pc = "thrown"]
    /\ UNCHANGED <<workflows, nodes, emitted, uuid, calls, restarts, stopped, clients, sockets, sent, channels, engineState, cancelCalls, notFound>>

StoreWorker(j) ==
    \/ /\ "resolve" \in Outcomes(queue[j].node.NodeClass, queue[j].node.config)
       /\ executeNodeStoreFailed(j, OkResult)
    \/ /\ "handleError" \in Outcomes(queue[j].node.NodeClass, queue[j].node.config)
       /\ executeNodeStoreFailed(j, ErrResult)
    \/ executeNodeNextStoreFailed(j)
    \/ \E stored \in BOOLEAN : executeNodeCatchStore(j, stored)

StoreNext ==
    \/ \E definition \in StoreDefinitions : createWorkflow(definition)
    \/ \E workflowId \in DOMAIN workflows :
           executeWorkflow(workflowId) \/ executeWorkflowStoreFailed(workflowId)
    \/ \E executionId \in DOMAIN calls : executeWorkflowResume(executionId)
    \/ \E j \in Jobs : Worker(j) \/ StoreWorker(j)

StoreSpec == Init /\ [][StoreNext]_vars

----------------------------------------------------------------------------
(* WebSocketHandler (api/websocket.js) *)

\* a message passed to ws.send that is not an engine event
Message(type, executionId, workflowId) ==
    [type |-> type, executionId |-> executionId,
     workflowId |-> workflowId, nodeId |-> Undefined]

\* ws.send(message): delivered when the socket is open
Send(messages, clientId, message) ==
    IF sockets[clientId] = OPEN THEN messages \cup {<<clientId, message>>}
    ELSE messages

\* The parsed messages a client sends. executionId 0 and workflowId "" stand
\* for a missing (falsy) field; "undefined" is the text undefined.
\* channel is the field of the message the README documents; "" when missing.
ClientMessages ==
    [type : {"subscribe", "unsubscribe"},
     executionId : 0..MaxUuids,
     workflowId : {"", "undefined"} \cup {ToString(i) : i \in 1..MaxUuids},
     channel : {""}]
        \cup [type : {"ping", "other"}, executionId : {0}, workflowId : {""},
              channel : {""}]

\* the message the README documents: { "type": "subscribe", "channel":
\* "execution:123" }, which has no executionId and no workflowId
DocumentedMessages ==
    [type : {"subscribe"}, executionId : {0}, workflowId : {""},
     channel : {executionKey(i) : i \in 1..MaxUuids}]

\* wss.on('connection'): a new client with no subscription (lines 14-39)
connection ==
    /\ Cardinality(DOMAIN sockets) < MaxClients
    /\ LET clientId == Cardinality(DOMAIN sockets) + 1
       IN  /\ clients' = MapSet(clients, clientId, {})
           /\ sockets' = MapSet(sockets, clientId, OPEN)
           /\ sent' = sent \cup {<<clientId, Message("connection", 0, Undefined)>>}
    /\ UNCHANGED <<workflows, executions, nodes, redis, queue, emitted, uuid, calls,
                   restarts, stopped, persisted, channels, engineState, cancelCalls, notFound>>

\* handleSubscribe(clientId, data) for a client of the map; throws: ws.send on
\* a socket that is not open throws (it does in some versions of ws), which
\* ends the handler at its first send
handleSubscribe(clientId, data, throws) ==
    LET first == IF data.executionId # 0
                 THEN {executionKey(data.executionId)} ELSE {}
        stops == data.executionId # 0 /\ throws
        second == IF data.workflowId # "" /\ ~stops
                  THEN {workflowKey(data.workflowId)} ELSE {}
        acked == IF data.executionId # 0
                 THEN Send(sent, clientId,
                           Message("subscribed", data.executionId, Undefined))
                 ELSE sent
    IN  /\ clients' = [clients EXCEPT ![clientId] = @ \cup first \cup second]
        /\ sent' = IF data.workflowId # ""
                   THEN Send(acked, clientId, Message("subscribed", 0, data.workflowId))
                   ELSE acked

\* handleUnsubscribe clearing the client's whole subscription set
handleUnsubscribe_All(clientId, data) ==
    /\ clients' = [clients EXCEPT
                      ![clientId] = IF data.executionId # 0 \/ data.workflowId # ""
                                    THEN {} ELSE @]
    /\ UNCHANGED sent

\* handleUnsubscribe(clientId, data) for a client of the map
handleUnsubscribe(clientId, data) ==
    /\ clients' = [clients EXCEPT
                      ![clientId] = (@ \ (IF data.executionId # 0
                                          THEN {executionKey(data.executionId)} ELSE {}))
                                       \ (IF data.workflowId # ""
                                          THEN {workflowKey(data.workflowId)} ELSE {})]
    /\ UNCHANGED sent

\* ws.on('message'): handleMessage(clientId, message). For a client that is
\* no longer in the map, client is undefined and every use of it throws a
\* TypeError that the catch of line 77 logs.
handleMessage(clientId, data, throws) ==
    /\ clientId \in DOMAIN sockets
    /\ throws => /\ sockets[clientId] # OPEN
                 /\ clientId \in DOMAIN clients
                 /\ data.type = "subscribe" /\ data.executionId # 0
    /\ IF clientId \notin DOMAIN clients
       THEN UNCHANGED <<clients, sent>>
       ELSE CASE data.type = "subscribe" -> handleSubscribe(clientId, data, throws)
              [] data.type = "unsubscribe" -> handleUnsubscribe(clientId, data)
              [] data.type = "ping" ->
                    /\ sent' = Send(sent, clientId, Message("pong", 0, Undefined))
                    /\ UNCHANGED clients
              [] OTHER -> UNCHANGED <<clients, sent>>
    /\ channels' = IF data.channel # "" /\ clientId \in DOMAIN clients
                   THEN channels \cup {<<clientId, data.channel>>} ELSE channels
    /\ UNCHANGED <<workflows, executions, nodes, redis, queue, emitted, uuid, calls,
                   restarts, stopped, persisted, sockets, engineState, cancelCalls, notFound>>

\* the closing handshake of a socket has started: readyState is CLOSING
closing(clientId) ==
    /\ clientId \in DOMAIN sockets
    /\ sockets[clientId] = OPEN
    /\ sockets' = [sockets EXCEPT ![clientId] = CLOSING]
    /\ UNCHANGED <<workflows, executions, nodes, redis, queue, emitted, uuid, calls,
                   restarts, stopped, persisted, clients, sent, channels, engineState, cancelCalls, notFound>>

\* onClose leaving the client in the map
onClose_Kept(clientId) ==
    /\ clientId \in DOMAIN sockets
    /\ sockets[clientId] # CLOSED
    /\ sockets' = [sockets EXCEPT ![clientId] = CLOSED]
    /\ UNCHANGED <<workflows, executions, nodes, redis, queue, emitted, uuid, calls,
                   restarts, stopped, persisted, clients, sent, channels, engineState, cancelCalls, notFound>>

\* ws.on('close'): this.clients.delete(clientId) (lines 24-27)
onClose(clientId) ==
    /\ clientId \in DOMAIN sockets
    /\ sockets[clientId] # CLOSED
    /\ sockets' = [sockets EXCEPT ![clientId] = CLOSED]
    /\ clients' = [c \in (DOMAIN clients) \ {clientId} |-> clients[c]]
    /\ UNCHANGED <<workflows, executions, nodes, redis, queue, emitted, uuid, calls,
                   restarts, stopped, persisted, sent, channels, engineState, cancelCalls, notFound>>

\* the workflows created while clients are connected
WsDefinitions ==
    {definition \in Definitions : Len(definition.nodes) <= MaxWsNodes}

WsNext ==
    \/ \E definition \in WsDefinitions : createWorkflow(definition)
    \/ \E workflowId \in DOMAIN workflows : executeWorkflow(workflowId)
    \/ \E executionId \in DOMAIN calls : executeWorkflowResume(executionId)
    \/ \E j \in Jobs : Worker(j)
    \/ connection
    \/ \E clientId \in DOMAIN sockets, data \in ClientMessages, throws \in BOOLEAN :
           handleMessage(clientId, data, throws)
    \/ \E clientId \in DOMAIN sockets : closing(clientId) \/ onClose(clientId)

WsSpec == Init /\ [][WsNext]_vars

\* the clients send the message of the README only
DocNext ==
    \/ \E definition \in WsDefinitions : createWorkflow(definition)
    \/ \E workflowId \in DOMAIN workflows : executeWorkflow(workflowId)
    \/ \E executionId \in DOMAIN calls : executeWorkflowResume(executionId)
    \/ \E j \in Jobs : Worker(j)
    \/ connection
    \/ \E clientId \in DOMAIN sockets, data \in DocumentedMessages :
           handleMessage(clientId, data, FALSE)
    \/ \E clientId \in DOMAIN sockets : closing(clientId) \/ onClose(clientId)

DocSpec == Init /\ [][DocNext]_vars

----------------------------------------------------------------------------
(* Registering node types while the engine runs *)

\* the registerNode calls made after start-up: a type index.js registered
\* and a new one, each with one of two classes
RegisterTypes == {"http", "email"}
RegisterClasses == {"HTTPNode", "PythonNode"}

RegisterDefinitions ==
    {definition \in Definitions : Len(definition.nodes) <= MaxRegisterNodes}

RegisterNext ==
    \/ \E definition \in RegisterDefinitions : createWorkflow(definition)
    \/ \E workflowId \in DOMAIN workflows : executeWorkflow(workflowId)
    \/ \E executionId \in DOMAIN calls : executeWorkflowResume(executionId)
    \/ \E j \in Jobs : Worker(j)
    \/ \E type \in RegisterTypes, NodeClass \in RegisterClasses :
           registerNode(type, NodeClass)

RegisterSpec == Init /\ [][RegisterNext]_vars

----------------------------------------------------------------------------
(* Reading an execution *)

\* getExecution(executionId): the stored copy when the store has one,
\* otherwise the entry of this.executions (lines 200-203)
getExecution(executionId) ==
    IF executionId \in DOMAIN redis.execution THEN redis.execution[executionId]
    ELSE IF executionId \in DOMAIN executions THEN executions[executionId]
    ELSE [id |-> Undefined]

----------------------------------------------------------------------------
(* Shutting the engine down *)

MaxShutdownNodes == 2

\* shutdown(), up to its first await (line 211): queue.close() stops the
\* worker taking jobs and waits for the jobs it is processing
shutdown ==
    /\ engineState = "running"
    /\ engineState' = "closing"
    /\ UNCHANGED <<workflows, executions, nodes, redis, queue, emitted, uuid, calls,
                   restarts, stopped, persisted, clients, sockets, sent, channels, cancelCalls, notFound>>

\* shutdown(), resumed once no job is being processed: the queue's
\* connections are closed and redis.quit() closes the store's (line 212)
shutdownQuit ==
    /\ engineState = "closing"
    /\ Active = {}
    /\ engineState' = "closed"
    /\ UNCHANGED <<workflows, executions, nodes, redis, queue, emitted, uuid, calls,
                   restarts, stopped, persisted, clients, sockets, sent, channels, cancelCalls, notFound>>

\* executeWorkflow resumed after the queue's connections were closed:
\* queue.add of line 104 rejects and the call throws
executeWorkflowQueueFailed(executionId) ==
    /\ engineState = "closed"
    /\ executionId \in DOMAIN calls
    /\ calls' = [e \in (DOMAIN calls) \ {executionId} |-> calls[e]]
    /\ UNCHANGED <<workflows, executions, nodes, redis, queue, emitted, uuid,
                   restarts, stopped, persisted, clients, sockets, sent, channels,
                   engineState, cancelCalls, notFound>>

ShutdownDefinitions ==
    {definition \in Definitions : Len(definition.nodes) <= MaxShutdownNodes}

\* the calls the engine receives before, during and after shutdown(): no
\* line of createWorkflow, executeWorkflow or the worker reads whether
\* shutdown() was called; a call made after the connections were closed
\* fails at its first store or queue operation
ShutdownNext ==
    \/ \E definition \in ShutdownDefinitions :
           engineState # "closed" /\ createWorkflow(definition)
    \/ \E workflowId \in DOMAIN workflows :
           engineState # "closed" /\ executeWorkflow(workflowId)
    \/ \E workflowId \in DOMAIN workflows :
           engineState = "closed" /\ executeWorkflowStoreFailed(workflowId)
    \/ \E executionId \in DOMAIN calls :
           engineState # "closed" /\ executeWorkflowResume(executionId)
    \/ \E executionId \in DOMAIN calls : executeWorkflowQueueFailed(executionId)
    \/ \E j \in Jobs : Worker(j)
    \/ shutdown
    \/ shutdownQuit

ShutdownSpec == Init /\ [][ShutdownNext]_vars

----------------------------------------------------------------------------
(* Cancelling an execution *)

MaxCancelNodes == 2

\* cancel_execution(id) called on the engine: class WorkflowEngine (lines
\* 9-215) defines no such method and no line assigns the status "cancelled",
\* so the call throws a TypeError and the engine's state stays as it was
cancel_execution(id) ==
    /\ id \in DOMAIN executions
    /\ id \notin cancelCalls
    /\ cancelCalls' = cancelCalls \cup {id}
    /\ UNCHANGED <<workflows, executions, nodes, redis, queue, emitted, uuid, calls,
                   restarts, stopped, persisted, clients, sockets, sent, channels,
                   engineState, notFound>>

CancelDefinitions ==
    {definition \in Definitions : Len(definition.nodes) <= MaxCancelNodes}

CancelNext ==
    \/ \E definition \in CancelDefinitions : createWorkflow(definition)
    \/ \E workflowId \in DOMAIN workflows : executeWorkflow(workflowId)
    \/ \E executionId \in DOMAIN calls : executeWorkflowResume(executionId)
    \/ \E j \in Jobs : Worker(j)
    \/ \E id \in DOMAIN executions : cancel_execution(id)

CancelSpec == Init /\ [][CancelNext]_vars

----------------------------------------------------------------------------
(* Executing a workflow the engine does not hold *)

MaxNotFoundNodes == 2

\* executeWorkflow creating the execution record before it looks the workflow up
executeWorkflowNotFound_Created(workflowId) ==
    /\ workflowId \notin DOMAIN workflows
    /\ workflowId \notin notFound
    /\ uuid < MaxUuids
    /\ executions' = MapSet(executions, uuid + 1,
                            [id |-> uuid + 1,
                             workflowId |-> workflowId,
                             status |-> "running",
                             data |-> initialData,
                             nodeResults |-> EmptyMap,
                             error |-> Undefined,
                             endTime |-> Undefined])
    /\ uuid' = uuid + 1
    /\ notFound' = notFound \cup {workflowId}
    /\ UNCHANGED <<workflows, nodes, redis, queue, emitted, calls,
                   restarts, stopped, persisted, clients, sockets, sent, channels,
                   engineState, cancelCalls>>

\* executeWorkflow(workflowId) when this.workflows has no such key: the
\* throw of lines 83-86, before the execution id is drawn
executeWorkflowNotFound(workflowId) ==
    /\ workflowId \notin DOMAIN workflows
    /\ workflowId \notin notFound
    /\ notFound' = notFound \cup {workflowId}
    /\ UNCHANGED <<workflows, executions, nodes, redis, queue, emitted, uuid, calls,
                   restarts, stopped, persisted, clients, sockets, sent, channels,
                   engineState, cancelCalls>>

\* the workflow ids a request can name: the ids the engine handed out or
\* will hand out
RequestedWorkflowIds == 1..MaxUuids

NotFoundDefinitions ==
    {definition \in Definitions : Len(definition.nodes) <= MaxNotFoundNodes}

\* requests for any workflow id, on an engine that may be stopped and started
\* again (the new engine's workflow map is empty, the store still holds the
\* workflows)
NotFoundNext ==
    \/ \E definition \in NotFoundDefinitions : createWorkflow(definition)
    \/ \E workflowId \in DOMAIN workflows : executeWorkflow(workflowId)
    \/ \E workflowId \in RequestedWorkflowIds : executeWorkflowNotFound(workflowId)
    \/ \E executionId \in DOMAIN calls : executeWorkflowResume(executionId)
    \/ \E j \in Jobs : Worker(j)
    \/ restart

NotFoundSpec == Init /\ [][NotFoundNext]_vars

----------------------------------------------------------------------------
(* Two executions at a time *)

MaxIsolationNodes == 2

\* the engine after construction, with room for one more id than MaxUuids:
\* a workflow and two executions of it
IsolationInit ==
    /\ workflows = EmptyMap
    /\ executions = EmptyMap
    /\ nodes = Registry
    /\ redis = [workflow |-> EmptyMap, execution |-> EmptyMap]
    /\ persisted = {}
    /\ clients = EmptyMap
    /\ sockets = EmptyMap
    /\ sent = {}
    /\ channels = {}
    /\ engineState = "running"
    /\ cancelCalls = {}
    /\ notFound = {}
    /\ queue = <<>>
    /\ emitted = EmptyMap
    /\ uuid = -1
    /\ calls = EmptyMap
    /\ restarts = 0
    /\ stopped = EmptyMap

IsolationDefinitions ==
    {definition \in Definitions : Len(definition.nodes) <= MaxIsolationNodes}

IsolationNext ==
    \/ \E definition \in IsolationDefinitions : createWorkflow(definition)
    \/ \E workflowId \in DOMAIN workflows : executeWorkflow(workflowId)
    \/ \E executionId \in DOMAIN calls : executeWorkflowResume(executionId)
    \/ \E j \in Jobs : Worker(j)

IsolationSpec == IsolationInit /\ [][IsolationNext]_vars

----------------------------------------------------------------------------
(* Two clients that subscribe and unsubscribe *)

MaxUnsubClients == 2

MaxUnsubNodes == 1

\* the engine after construction with MaxUnsubClients clients connected:
\* each is in the map with no subscription and was sent 'connection'
UnsubInit ==
    /\ workflows = EmptyMap
    /\ executions = EmptyMap
    /\ nodes = Registry
    /\ redis = [workflow |-> EmptyMap, execution |-> EmptyMap]
    /\ persisted = {}
    /\ clients = [clientId \in 1..MaxUnsubClients |-> {}]
    /\ sockets = [clientId \in 1..MaxUnsubClients |-> OPEN]
    /\ sent = {<<clientId, Message("connection", 0, Undefined)>> :
                  clientId \in 1..MaxUnsubClients}
    /\ channels = {}
    /\ engineState = "running"
    /\ cancelCalls = {}
    /\ notFound = {}
    /\ queue = <<>>
    /\ emitted = EmptyMap
    /\ uuid = 0
    /\ calls = EmptyMap
    /\ restarts = 0
    /\ stopped = EmptyMap

\* the subscribe and unsubscribe messages that name the execution, the
\* workflow key every event matches, both or neither
UnsubMessages ==
    {data \in ClientMessages :
        /\ data.type \in {"subscribe", "unsubscribe"}
        /\ data.executionId \in {0, MaxUuids}
        /\ data.workflowId \in {"", Undefined}}

UnsubDefinitions ==
    {definition \in Definitions : Len(definition.nodes) <= MaxUnsubNodes}

UnsubNext ==
    \/ \E definition \in UnsubDefinitions : createWorkflow(definition)
    \/ \E workflowId \in DOMAIN workflows : executeWorkflow(workflowId)
    \/ \E executionId \in DOMAIN calls : executeWorkflowResume(executionId)
    \/ \E j \in Jobs : Worker(j)
    \/ \E clientId \in DOMAIN sockets, data \in UnsubMessages :
           handleMessage(clientId, data, FALSE)

UnsubSpec == UnsubInit /\ [][UnsubNext]_vars

----------------------------------------------------------------------------
(* Vocabulary of the properties *)

EdgePairs(workflow) ==
    {<<workflow.edges[i].source, workflow.edges[i].target>> : i \in 1..Len(workflow.edges)}

\* a path of one or more edges leads from a to c
Reaches(workflow, a, c) ==
    LET E == EdgePairs(workflow)
        RECURSIVE From(_, _)
        From(S, n) == IF n = 0 THEN S
                      ELSE From(S \cup {e[2] : e \in {x \in E : x[1] \in S}}, n - 1)
    IN  c \in From({e[2] : e \in {x \in E : x[1] = a}}, Len(workflow.edges))

TransitiveSuccessors(workflow, nodeId) ==
    {c \in NodeIds(workflow) : Reaches(workflow, nodeId, c)}

UniqueNodeIds(workflow) ==
    \A i, k \in 1..Len(workflow.nodes) :
        workflow.nodes[i].id = workflow.nodes[k].id => i = k

NoDanglingEdge(workflow) ==
    \A i \in 1..Len(workflow.edges) :
        /\ workflow.edges[i].source \in NodeIds(workflow)
        /\ workflow.edges[i].target \in NodeIds(workflow)

Acyclic(workflow) == \A n \in NodeIds(workflow) : ~Reaches(workflow, n, n)

ValidWorkflow(workflow) ==
    UniqueNodeIds(workflow) /\ NoDanglingEdge(workflow) /\ Acyclic(workflow)

WorkflowOf(executionId) == workflows[executions[executionId].workflowId]

JobsOf(executionId) == {j \in Jobs : queue[j].data.executionId = executionId}

JobsOfNode(executionId, nodeId) ==
    {j \in JobsOf(executionId) : queue[j].data.nodeId = nodeId}

\* no job of the execution is waiting, delayed for a retry or being handled,
\* and executeWorkflow has returned
Quiescent(executionId) ==
    /\ executionId \notin DOMAIN calls
    /\ \A j \in JobsOf(executionId) : queue[j].state \in {"completed", "failed"}

\* the type of the job's node is not in the registry
Unregistered(j) ==
    LET d == queue[j].data
        n == FindNode(workflows[d.workflowId], d.nodeId)
    IN  n # 0 /\ workflows[d.workflowId].nodes[n].type \notin DOMAIN nodes

----------------------------------------------------------------------------
(* C1 *)

\* C1: for every execution of a valid workflow and every node of it, the
\* scheduler enqueues the node at most once: the queue never holds two jobs of
\* the same execution and node (a retry re-delivers the same job).
C1_EnqueuedAtMostOnce ==
    \A e \in DOMAIN executions :
        ValidWorkflow(WorkflowOf(e)) =>
            \A n \in NodeIds(WorkflowOf(e)) : Cardinality(JobsOfNode(e, n)) <= 1

----------------------------------------------------------------------------
(* C2 *)

\* the jobs a step adds to the queue
Enqueued == {j \in 1..Len(queue') : j > Len(queue)}

\* C2: a step enqueues a node only when every predecessor of the node (every
\* source of an edge targeting it) already has an entry in the execution's
\* nodeResults.
C2_EnqueuedOnlyWhenAllDependenciesMet ==
    [][\A j \in Enqueued :
          LET d == queue'[j].data
          IN  Dependencies(workflows[d.workflowId], d.nodeId)
                  \subseteq DOMAIN executions[d.executionId].nodeResults]_vars

\* a node with two predecessors has been enqueued
C2_Witness ==
    \E j \in Jobs :
        Cardinality(Dependencies(workflows[queue[j].data.workflowId],
                                 queue[j].data.nodeId)) >= 2

----------------------------------------------------------------------------
(* C3 *)

\* C3: an execution's status is completed if and only if every node id of its
\* workflow has an entry in nodeResults.
C3_CompletedIffAllNodesHaveResults ==
    \A e \in DOMAIN executions :
        executions[e].status = "completed"
            <=> allNodesExecuted(WorkflowOf(e), executions[e].nodeResults)

\* the same at rest only: once nothing of the execution is left to run
C3_AtRest ==
    \A e \in DOMAIN executions :
        Quiescent(e) =>
            (executions[e].status = "completed"
                <=> allNodesExecuted(WorkflowOf(e), executions[e].nodeResults))

----------------------------------------------------------------------------
(* C4 *)

\* a node that is neither done nor queued and whose predecessors all have results
Schedulable(e) ==
    {n \in NodeIds(WorkflowOf(e)) :
        /\ n \notin DOMAIN executions[e].nodeResults
        /\ JobsOfNode(e, n) = {}
        /\ Dependencies(WorkflowOf(e), n) \subseteq DOMAIN executions[e].nodeResults}

TerminallyFailed(e) == {j \in JobsOf(e) : queue[j].state = "failed"}

\* C4: an execution's status is failed if and only if a node job has exhausted
\* its retries and nothing of the execution is queued, waiting for a retry,
\* running or schedulable.
C4_FailedIffTerminalFailureAndNothingLeft ==
    \A e \in DOMAIN executions :
        executions[e].status = "failed"
            <=> /\ TerminallyFailed(e) # {}
                /\ Quiescent(e)
                /\ Schedulable(e) = {}

----------------------------------------------------------------------------
(* C5 *)

\* the execution runs a non-empty valid workflow whose node types are registered
Runnable(e) ==
    /\ e \in DOMAIN executions
    /\ WorkflowOf(e).nodes # <<>>
    /\ ValidWorkflow(WorkflowOf(e))
    /\ \A i \in 1..Len(WorkflowOf(e).nodes) : WorkflowOf(e).nodes[i].type \in DOMAIN nodes

\* status completed, a result for every node, workflow:completed emitted
Completed(e) ==
    /\ e \in DOMAIN executions
    /\ executions[e].status = "completed"
    /\ NodeIds(WorkflowOf(e)) \subseteq DOMAIN executions[e].nodeResults
    /\ Event("workflow:completed", e, Undefined) \in DOMAIN emitted

\* C5: under fair scheduling, an execution of a non-empty acyclic workflow
\* whose node types are registered and whose nodes succeed within their
\* allowed attempts eventually has status completed, a result for every node
\* and its workflow:completed event emitted.
C5_EventuallyCompleted ==
    \A e \in 1..MaxUuids : Runnable(e) ~> Completed(e)

\* an execution completed although an attempt of one of its jobs had failed
C5_Witness ==
    \E e \in DOMAIN executions :
        /\ Completed(e)
        /\ \E j \in JobsOf(e) : queue[j].attemptsMade >= 1

----------------------------------------------------------------------------
(* C6 *)

\* the jobs that failed on every allowed attempt, their node left without a result
Exhausted ==
    {j \in Jobs :
        /\ queue[j].state = "failed"
        /\ queue[j].data.nodeId
               \notin DOMAIN executions[queue[j].data.executionId].nodeResults}

\* no transitive successor of job j's node is enqueued, and once nothing of
\* the execution is left to run its status is failed
Blocked(j) ==
    LET d == queue[j].data
    IN  /\ \A k \in JobsOf(d.executionId) :
               queue[k].data.nodeId
                   \notin TransitiveSuccessors(workflows[d.workflowId], d.nodeId)
        /\ Quiescent(d.executionId) => executions[d.executionId].status = "failed"

\* every recorded result stays recorded
ResultsKept ==
    \A e \in DOMAIN executions :
        /\ e \in DOMAIN executions'
        /\ \A n \in DOMAIN executions[e].nodeResults :
               /\ n \in DOMAIN executions'[e].nodeResults
               /\ executions'[e].nodeResults[n] = executions[e].nodeResults[n]

\* C6: when a node fails on every allowed attempt, no transitive successor of
\* it is ever enqueued, the results recorded before stay recorded, and the
\* execution's final status is failed.
C6_ExhaustedNodeBlocksDownstream ==
    [][ResultsKept /\ \A j \in Exhausted' : Blocked(j)']_vars

\* the same for the nodes whose type is registered (their execute rejected on
\* every attempt)
C6_RegisteredOnly ==
    [][ResultsKept /\ \A j \in Exhausted' : ~Unregistered(j)' => Blocked(j)']_vars

----------------------------------------------------------------------------
(* C7 *)

\* C7: after the process was stopped with node jobs of an execution queued or
\* in flight and a fresh engine started on the same queue and store, the
\* results recorded before the stop are still in the stored record, and the
\* execution ends completed or failed: once none of its jobs is left to run,
\* its stored status is one of the two.
C7_RestartFinishesExecutions ==
    \A e \in DOMAIN stopped :
        /\ stopped[e] \subseteq DOMAIN redis.execution[e].nodeResults
        /\ (\A j \in JobsOf(e) : queue[j].state \in {"completed", "failed"})
               => redis.execution[e].status \in {"completed", "failed"}

----------------------------------------------------------------------------
(* C8 *)

\* C8: every stored workflow is an acyclic graph over existing, uniquely
\* identified nodes (createWorkflow rejects every other definition).
C8_StoredWorkflowsAreValid ==
    /\ \A w \in DOMAIN workflows : ValidWorkflow(workflows[w])
    /\ \A w \in DOMAIN redis.workflow : ValidWorkflow(redis.workflow[w])

----------------------------------------------------------------------------
(* C9 *)

\* C9: a job of a node whose type is not registered is not retried (after its
\* first failed attempt it is failed for good), and once nothing of the
\* execution is left to run the execution's status is failed.
C9_UnknownTypeIsTerminal ==
    \A j \in Jobs :
        Unregistered(j) =>
            /\ queue[j].attemptsMade >= 1 => queue[j].state = "failed"
            /\ (queue[j].state = "failed" /\ Quiescent(queue[j].data.executionId))
                   => executions[queue[j].data.executionId].status = "failed"

----------------------------------------------------------------------------
(* C10 *)

\* C10: when a node implementation signals a permanent failure (execute
\* resolved to handleError(error)), the node has no entry in nodeResults, the
\* failure is recorded as the execution's error, the job is not run again and
\* no successor of the node is enqueued.
C10_PermanentFailureIsAnError ==
    \A j \in Jobs :
        queue[j].result = ErrResult =>
            LET d == queue[j].data
            IN  /\ d.nodeId \notin DOMAIN executions[d.executionId].nodeResults
                /\ executions[d.executionId].error # Undefined
                /\ \A k \in JobsOf(d.executionId) :
                       queue[k].data.nodeId
                           \notin TransitiveSuccessors(workflows[d.workflowId], d.nodeId)

----------------------------------------------------------------------------
(* C11 *)

\* the number of times the job was handed to the handler
Deliveries(job) == job.attemptsMade + (IF job.state = "active" THEN 1 ELSE 0)

\* C11: a job whose handler throws is delivered again only while attempts
\* remain: no job is handed to the handler more than 3 times, a job that
\* succeeded or failed on its last attempt is never run or changed again, and
\* a job is failed for good only after its 3rd failed attempt.
C11_AtMostThreeAttempts ==
    [][\A j \in Jobs :
          /\ Deliveries(queue'[j]) <= 3
          /\ queue[j].state \in {"completed", "failed"} => queue'[j] = queue[j]
          /\ queue'[j].state = "failed" => queue'[j].attemptsMade = 3
          /\ queue'[j].state = "delayed" => queue'[j].attemptsMade \in {1, 2}]_vars

\* one job failed on its 3rd attempt, another succeeded after a failed attempt
C11_Witness ==
    /\ \E j \in Jobs : queue[j].state = "failed" /\ queue[j].attemptsMade = 3
    /\ \E j \in Jobs : queue[j].state = "completed" /\ queue[j].attemptsMade >= 1

----------------------------------------------------------------------------
(* C12 *)

\* executions of a single-node workflow whose only job failed on attempts 1
\* and 2 and succeeded on attempt 3
FailFailSucceed ==
    {e \in DOMAIN executions :
        /\ Len(WorkflowOf(e).nodes) = 1
        /\ Quiescent(e)
        /\ \E j \in JobsOf(e) :
               /\ JobsOf(e) = {j}
               /\ queue[j].state = "completed"
               /\ queue[j].attemptsMade = 2}

\* C12: the execution of a single-node workflow whose node fails on attempts
\* 1 and 2 and succeeds on attempt 3 ends with status completed, the node's
\* result recorded and no error left on the execution record.
C12_NoLeftoverError ==
    \A e \in FailFailSucceed :
        /\ executions[e].status = "completed"
        /\ NodeIds(WorkflowOf(e)) \subseteq DOMAIN executions[e].nodeResults
        /\ executions[e].error = Undefined

----------------------------------------------------------------------------
(* C13 *)

\* C13: the input of every job a step enqueues is the execution's initial
\* input when the node has no predecessor, and otherwise the map from each
\* predecessor of the node (one key per predecessor, also for one predecessor)
\* to the result that predecessor recorded in nodeResults.
C13_JobInput ==
    [][\A j \in Enqueued :
          LET d == queue'[j].data
              dependencies == Dependencies(workflows[d.workflowId], d.nodeId)
              nodeResults == executions[d.executionId].nodeResults
          IN  IF dependencies = {}
              THEN d.input = executions'[d.executionId].data
              ELSE /\ DOMAIN d.input = dependencies
                   /\ dependencies \subseteq DOMAIN nodeResults
                   /\ \A p \in dependencies : d.input[p] = nodeResults[p]]_vars

\* start nodes were enqueued with the initial input and their common successor
\* with the results of both
C13_Witness ==
    /\ \E j \in Jobs : queue[j].data.input = initialData
    /\ \E j \in Jobs : /\ Cardinality(DOMAIN queue[j].data.input) = 2
                       /\ \A p \in DOMAIN queue[j].data.input :
                              queue[j].data.input[p] = OkResult

----------------------------------------------------------------------------
(* C14 *)

\* the node ids the execution record shows as terminally failed: the record
\* holds an error and a job of the node has failed on its last attempt
nodeErrors(e) ==
    IF executions[e].error = Undefined THEN {}
    ELSE {queue[j].data.nodeId : j \in TerminallyFailed(e)}

\* C14: in every reachable state of every execution no node id has both an
\* entry in nodeResults and a terminal failure recorded as the execution's
\* error.
C14_ResultsAndErrorsDisjoint ==
    \A e \in DOMAIN executions :
        DOMAIN executions[e].nodeResults \cap nodeErrors(e) = {}

----------------------------------------------------------------------------
(* C15 *)

\* the node ids that get their first entry in the execution's nodeResults in
\* this step
FirstRecorded(e) ==
    DOMAIN executions'[e].nodeResults
        \ (IF e \in DOMAIN executions THEN DOMAIN executions[e].nodeResults ELSE {})

\* C15: node ids get their first entry in nodeResults in a topological order
\* of the workflow graph: when a node's result is first recorded, every
\* predecessor of the node already has its result recorded.
C15_RecordedInTopologicalOrder ==
    [][\A e \in DOMAIN executions' :
          \A n \in FirstRecorded(e) :
              /\ e \in DOMAIN executions
              /\ Dependencies(workflows[executions[e].workflowId], n)
                     \subseteq DOMAIN executions[e].nodeResults]_vars

\* the result of a node with two predecessors has been recorded
C15_Witness ==
    \E e \in DOMAIN executions :
        \E n \in DOMAIN executions[e].nodeResults :
            Cardinality(Dependencies(WorkflowOf(e), n)) = 2

----------------------------------------------------------------------------
(* C16 *)

\* C16: in every reachable state an execution's end time is set if and only
\* if its status is completed, failed or cancelled.
C16_EndTimeIffTerminalStatus ==
    \A e \in DOMAIN executions :
        executions[e].endTime # Undefined
            <=> executions[e].status \in {"completed", "failed", "cancelled"}

----------------------------------------------------------------------------
(* C17 *)

\* the jobs of the execution that have recorded their node's result and have
\* not finished scanning the successors and evaluating completion
Mutating(e) == {j \in JobsOf(e) : queue[j].pc \in {"next", "completed"}}

\* C17: the sequence 'record the result, scan and enqueue the successors,
\* evaluate completion' of one node completion is never interleaved with the
\* same sequence of another node of the same execution: at most one job of an
\* execution is inside the sequence.
C17_MutationsNotInterleaved ==
    \A e \in DOMAIN executions : Cardinality(Mutating(e)) <= 1

----------------------------------------------------------------------------
(* C18 *)

\* C18: the in-memory execution record never advances past the durable one,
\* also when the store rejects a write: every node result the in-memory
\* record holds is in the stored record, and a status the in-memory record
\* changed to is the status of the stored record.
C18_MemoryNotAheadOfStore ==
    \A e \in DOMAIN executions :
        /\ executions[e].nodeResults # EmptyMap
               => /\ e \in DOMAIN redis.execution
                  /\ DOMAIN executions[e].nodeResults
                         \subseteq DOMAIN redis.execution[e].nodeResults
        /\ executions[e].status # "running"
               => /\ e \in DOMAIN redis.execution
                  /\ executions[e].status = redis.execution[e].status

----------------------------------------------------------------------------
(* C19 *)

\* the events emitted in this step
Emitting ==
    {ev \in DOMAIN emitted' : ev \notin DOMAIN emitted \/ emitted'[ev] > emitted[ev]}

\* C19: an event is emitted only after the state change that caused it has
\* been written to the store: workflow:completed only when the store has
\* accepted the execution's record with status completed, node:completed of a
\* node only when the stored record holds that node's result.
C19_EmittedAfterDurableWrite ==
    [][\A ev \in Emitting :
          /\ ev.type = "workflow:completed"
                 => <<ev.executionId, "completed">> \in persisted
          /\ ev.type = "node:completed"
                 => /\ ev.executionId \in DOMAIN redis.execution
                    /\ ev.nodeId \in DOMAIN redis.execution[ev.executionId].nodeResults]_vars

\* workflow:completed and node:completed were emitted for an execution in
\* which the store had rejected the write of a result
C19_Witness ==
    \E e \in DOMAIN executions :
        /\ Event("workflow:completed", e, Undefined) \in DOMAIN emitted
        /\ \E j \in JobsOf(e) :
               /\ queue[j].attemptsMade >= 1
               /\ queue[j].node.config # "flaky"
               /\ Event("node:completed", e, queue[j].data.nodeId) \in DOMAIN emitted

----------------------------------------------------------------------------
(* C20 *)

\* executions that ended as failed: a job has exhausted its retries, nothing
\* of the execution is queued, running or waiting, and the status is failed
EndedFailed ==
    {e \in DOMAIN executions :
        /\ executions[e].status = "failed"
        /\ Quiescent(e)
        /\ TerminallyFailed(e) # {}}

\* C20: when an execution has ended as failed, a workflow:failed event has
\* been emitted for it.
C20_WorkflowFailedEmitted ==
    \A e \in EndedFailed :
        \E ev \in DOMAIN emitted :
            ev.type = "workflow:failed" /\ ev.executionId = e

----------------------------------------------------------------------------
(* C21 *)

\* the connected clients whose socket is open
Connected == {c \in DOMAIN clients : sockets[c] = OPEN}

\* the subscription key of the workflow an execution belongs to
WorkflowKeyOf(executionId) ==
    workflowKey(ToString(executions[executionId].workflowId))

\* C21: every event carries the workflow id of its execution, so that a
\* connected client whose only subscription is that workflow receives every
\* node:completed, node:failed and workflow:completed event of the execution.
C21_WorkflowSubscriberReceives ==
    [][\A ev \in Emitting :
          \A c \in Connected :
              clients[c] = {WorkflowKeyOf(ev.executionId)}
                  => <<c, ev>> \in sent']_vars

----------------------------------------------------------------------------
(* C22 *)

EventTypes == {"node:completed", "node:failed", "workflow:completed"}

\* the engine events passed to a client's ws.send in this step
Delivered == {m \in sent' \ sent : m[2].type \in EventTypes}

\* the client holds a subscription for the execution, for its workflow or
\* the wildcard
Subscribed(c, executionId) ==
    /\ c \in DOMAIN clients
    /\ \/ executionKey(executionId) \in clients[c]
       \/ WorkflowKeyOf(executionId) \in clients[c]
       \/ "*" \in clients[c]

\* C22: an event of execution E of workflow W is delivered to a client only
\* if the client's socket is open and the client holds a subscription for E,
\* for W or the wildcard.
C22_SelectiveBroadcast ==
    [][\A m \in Delivered :
          /\ sockets[m[1]] = OPEN
          /\ Subscribed(m[1], m[2].executionId)]_vars

----------------------------------------------------------------------------
(* C23 *)

\* the clients whose connection has closed
Removed == {c \in DOMAIN sockets : sockets[c] = CLOSED}

\* this step handles a message of client c
Handles(c) ==
    \E data \in ClientMessages, throws \in BOOLEAN : handleMessage(c, data, throws)

\* C23: a subscription lasts from the client's subscribe message until its
\* unsubscribe message or its disconnect; once the connection of a client has
\* closed, the client and its subscriptions are gone from the map for good,
\* nothing is sent to it any more, and handling a message for it changes no
\* state.
C23_SubscriptionEndsAtDisconnect ==
    [][/\ \A c \in Removed :
              /\ c \notin DOMAIN clients
              /\ c \notin DOMAIN clients'
              /\ \A m \in sent' \ sent : m[1] # c
              /\ Handles(c) => UNCHANGED vars
       /\ \A c \in DOMAIN clients \cap DOMAIN clients' :
              clients[c] \subseteq clients'[c]
                  \/ \E data \in ClientMessages :
                         data.type = "unsubscribe" /\ handleMessage(c, data, FALSE)]_vars

\* a client subscribed to an execution, its connection closed, and an event
\* of the execution emitted since was not sent to it
C23_Witness ==
    \E c \in Removed :
        \E ev \in DOMAIN emitted :
            /\ <<c, Message("subscribed", ev.executionId, Undefined)>> \in sent
            /\ <<c, ev>> \notin sent

----------------------------------------------------------------------------
(* C24 *)

\* C24: a client that has sent the documented message { "type": "subscribe",
\* "channel": "execution:<id>" } and is still connected receives the
\* node:completed events of execution <id>.
C24_DocumentedSubscribe ==
    [][\A ev \in Emitting :
          ev.type = "node:completed"
              => \A c \in Connected :
                     <<c, executionKey(ev.executionId)>> \in channels
                         => <<c, ev>> \in sent']_vars

----------------------------------------------------------------------------
(* C25 *)

\* C25: at any moment getExecution(id) returns the current snapshot: every
\* node result, the status and the error of the in-memory execution record
\* are in the record returned.
C25_GetExecutionIsCurrent ==
    \A e \in DOMAIN executions :
        LET returned == getExecution(e)
        IN  /\ returned.id = e
            /\ \A n \in DOMAIN executions[e].nodeResults :
                   /\ n \in DOMAIN returned.nodeResults
                   /\ returned.nodeResults[n] = executions[e].nodeResults[n]
            /\ returned.status = executions[e].status
            /\ returned.error = executions[e].error

----------------------------------------------------------------------------
(* C26 *)

\* the node ids whose entry in the execution's nodeResults this step adds,
\* removes or changes
ChangedResults(e) ==
    LET before == executions[e].nodeResults
        after == executions'[e].nodeResults
    IN  {n \in DOMAIN before \cup DOMAIN after :
            \/ n \notin DOMAIN before
            \/ n \notin DOMAIN after
            \/ before[n] # after[n]}

\* the node ids of the execution's jobs whose handler takes this step
Processed(e) ==
    {queue[j].data.nodeId : j \in {k \in JobsOf(e) : queue'[k] # queue[k]}}

----------------------------------------------------------------------------
(* C27 *)

\* C27: registerNode for a type that is already registered fails and leaves
\* the registry's mapping of that type as it was: no step changes the class
\* a registered type is mapped to.
C27_DuplicateTypeRejected ==
    [][\A type \in DOMAIN nodes :
          type \in DOMAIN nodes' /\ nodes'[type] = nodes[type]]_vars

----------------------------------------------------------------------------
(* C28 *)

\* the ascending order of node ids
NodeOrder == [id \in {"A", "B", "C", "D", "Z"} |->
                 CASE id = "A" -> 1 [] id = "B" -> 2 [] id = "C" -> 3
                   [] id = "D" -> 4 [] id = "Z" -> 5]

\* two nodes with the same predecessors become ready in the same step: the
\* start nodes at the start, the other ones when their last common
\* predecessor has completed
ReadyTogether(workflow, a, b) ==
    Dependencies(workflow, a) = Dependencies(workflow, b)

\* C28: nodes that become ready in the same step are enqueued in ascending
\* order of node id, whatever the order of the nodes and edges in the
\* workflow definition (the queue holds the jobs in the order of enqueueing).
C28_EnqueuedInAscendingOrder ==
    \A e \in DOMAIN executions :
        \A j \in JobsOf(e), k \in JobsOf(e) :
            (j < k /\ ReadyTogether(WorkflowOf(e), queue[j].data.nodeId,
                                    queue[k].data.nodeId))
                => NodeOrder[queue[j].data.nodeId] <= NodeOrder[queue[k].data.nodeId]

----------------------------------------------------------------------------
(* C29 *)

\* a step taken after shutdown() was called starts a call of executeWorkflow
NewCall == DOMAIN calls' \ DOMAIN calls # {}

\* C29: once shutdown() has been called the engine accepts no new work: no
\* later call of executeWorkflow creates an execution record or enqueues a
\* job, and the store connection is closed only when the jobs that were in
\* flight have finished
C29_NoWorkAfterShutdown ==
    [][/\ engineState # "running" =>
             /\ DOMAIN executions' \subseteq DOMAIN executions
             /\ ~NewCall
       /\ engineState' = "closed" => Active = {}]_vars

----------------------------------------------------------------------------
(* C30 *)

\* C30: after cancel_execution(id) the execution's status is cancelled, no
\* further node of it is enqueued, and a result that a node in flight
\* returns later is discarded: nodeResults stays as it is and the status
\* never becomes completed
C30_CancelledStaysCancelled ==
    [][\A e \in cancelCalls' :
           /\ executions'[e].status = "cancelled"
           /\ e \in cancelCalls =>
                  /\ Cardinality(JobsOf(e))' = Cardinality(JobsOf(e))
                  /\ executions'[e].nodeResults = executions[e].nodeResults
                  /\ executions[e].status # "completed" =>
                         executions'[e].status # "completed"]_vars

----------------------------------------------------------------------------
(* C31 *)

\* a call of executeWorkflow ends with the 'not found' error in this step
ThrowsNotFound == notFound' # notFound

\* C31: executeWorkflow for a workflow id that is not in the engine's
\* workflow map throws 'not found' and has no effect: no execution record is
\* added in memory or in the store, no id is drawn and no job is enqueued
C31_NotFoundHasNoEffect ==
    [][ThrowsNotFound =>
           /\ \A workflowId \in notFound' \ notFound : workflowId \notin DOMAIN workflows
           /\ executions' = executions
           /\ redis' = redis
           /\ persisted' = persisted
           /\ queue' = queue
           /\ calls' = calls
           /\ uuid' = uuid]_vars

\* the engine was started again, the store still holds a workflow that the
\* engine's map does not, and executing it was refused
C31_Witness ==
    \E workflowId \in notFound :
        /\ workflowId \in DOMAIN redis.workflow
        /\ workflowId \notin DOMAIN workflows

----------------------------------------------------------------------------
(* C32 *)

\* the execution record in memory and in the store is the same before and
\* after the step
Untouched(e) ==
    /\ e \in DOMAIN executions' /\ executions'[e] = executions[e]
    /\ e \in DOMAIN redis.execution =>
           /\ e \in DOMAIN redis'.execution
           /\ redis'.execution[e] = redis.execution[e]

\* C32: executions are isolated: a step of a node job of execution E, whether
\* it succeeds or fails, changes the status, nodeResults, error and end time
\* of no other execution, also when both run the same workflow at a time
C32_ExecutionsIsolated ==
    [][\A j \in Jobs :
           Worker(j) =>
               \A e \in DOMAIN executions \ {queue[j].data.executionId} :
                   Untouched(e)]_vars

\* two executions of one workflow, each with a job in the handler, one with a
\* recorded result or a failure and the other without
C32_Witness ==
    \E e1, e2 \in DOMAIN executions :
        /\ e1 # e2
        /\ executions[e1].workflowId = executions[e2].workflowId
        /\ \E j1 \in JobsOf(e1), j2 \in JobsOf(e2) :
               queue[j1].pc # "idle" /\ queue[j2].pc # "idle"
        /\ executions[e1].status = "failed"
        /\ executions[e2].status = "running"

----------------------------------------------------------------------------
(* C33 *)

\* C33: once an execution's status has become completed it never changes
\* again: no later job outcome moves it to failed or back to running
C33_CompletedIsFinal ==
    [][\A e \in DOMAIN executions :
           executions[e].status = "completed" =>
               /\ e \in DOMAIN executions'
               /\ executions'[e].status = "completed"]_vars

----------------------------------------------------------------------------
(* C34 *)

\* C34: for every execution the workflow:completed event is emitted at most
\* once, under every interleaving of node jobs that finish at the same time
C34_CompletedEmittedOnce ==
    \A ev \in DOMAIN emitted :
        ev.type = "workflow:completed" => emitted[ev] <= 1

----------------------------------------------------------------------------
(* C35 *)

\* the executions of a workflow in which every node has an incoming edge, or
\* that has no node at all
WithoutStartNode ==
    {e \in DOMAIN executions :
        /\ executions[e].workflowId \in DOMAIN workflows
        /\ \A i \in 1..Len(workflows[executions[e].workflowId].nodes) :
               Dependencies(workflows[executions[e].workflowId],
                            workflows[executions[e].workflowId].nodes[i].id) # {}}

\* C35: an execution of a workflow that has no node without incoming edges
\* enqueues no job and stays running: it never becomes completed or failed
\* and no event is emitted for it
C35_NoStartNodeStaysRunning ==
    \A e \in WithoutStartNode :
        /\ JobsOf(e) = {}
        /\ executions[e].status = "running"
        /\ e \in DOMAIN redis.execution /\ redis.execution[e].status = "running"
        /\ \A ev \in DOMAIN emitted : ev.executionId # e

\* executeWorkflow has returned for an execution of a workflow whose nodes
\* are all on a cycle
C35_Witness ==
    \E e \in WithoutStartNode :
        /\ e \notin DOMAIN calls
        /\ Len(workflows[executions[e].workflowId].nodes) > 0

----------------------------------------------------------------------------
(* C36 *)

\* C36: the key set of an execution's nodeResults only grows: once a node
\* has a recorded result no operation removes that entry
C36_ResultKeysOnlyGrow ==
    [][\A e \in DOMAIN executions :
           /\ e \in DOMAIN executions'
           /\ DOMAIN executions[e].nodeResults \subseteq
                  DOMAIN executions'[e].nodeResults]_vars

\* a node has a recorded result and a later attempt of another node failed
C36_Witness ==
    \E e \in DOMAIN executions :
        /\ executions[e].nodeResults # EmptyMap
        /\ executions[e].status = "failed"
        /\ \E j \in JobsOf(e) :
               /\ queue[j].attemptsMade > 0
               /\ queue[j].data.nodeId \notin DOMAIN executions[e].nodeResults

----------------------------------------------------------------------------
(* C37 *)

\* how often the event was emitted so far
Count(ev) == IF ev \in DOMAIN emitted THEN emitted[ev] ELSE 0

\* the handler of job j emits workflow:completed in this step
EmitsWorkflowCompleted(j) ==
    /\ queue[j].pc = "completed"
    /\ Len(queue') = Len(queue)
    /\ queue'[j].pc = "return"

\* C37: for the node whose success makes the execution complete,
\* workflow:completed is emitted before that node's own node:completed: when
\* the handler emits workflow:completed its job is still active, and every
\* node:completed emitted so far for the node belongs to another, completed
\* job
C37_WorkflowCompletedFirst ==
    [][\A j \in Jobs :
           EmitsWorkflowCompleted(j) =>
               LET e == queue[j].data.executionId
                   n == queue[j].data.nodeId
               IN  /\ Count(Event("workflow:completed", e, Undefined))' =
                          Count(Event("workflow:completed", e, Undefined)) + 1
                   /\ queue[j].state = "active"
                   /\ Count(Event("node:completed", e, n)) =
                          Cardinality({k \in JobsOfNode(e, n) :
                                          queue[k].state = "completed"})]_vars

\* the job that completed the execution has emitted workflow:completed and
\* then its own node:completed
C37_Witness ==
    \E j \in Jobs :
        /\ queue[j].state = "completed"
        /\ executions[queue[j].data.executionId].status = "completed"
        /\ Count(Event("workflow:completed", queue[j].data.executionId, Undefined)) = 1
        /\ Count(Event("node:completed", queue[j].data.executionId,
                       queue[j].data.nodeId)) = 1
        /\ \A k \in JobsOf(queue[j].data.executionId) :
               queue[k].state = "completed"

----------------------------------------------------------------------------
(* C38 *)

\* the subscription keys an unsubscribe message names
Named(data) ==
    (IF data.executionId # 0 THEN {executionKey(data.executionId)} ELSE {})
        \cup (IF data.workflowId # "" THEN {workflowKey(data.workflowId)} ELSE {})

\* the unsubscribe messages the clients send
Unsubscribes == {data \in UnsubMessages : data.type = "unsubscribe"}

\* the events the engine can emit
Events ==
    {Event(type, executionId, nodeId) :
        type \in EventTypes, executionId \in 1..MaxUuids,
        nodeId \in {"A", "B", Undefined}}

\* C38: when a client's unsubscribe message is processed, the subscriptions
\* it names are gone, so that no event matched only by them reaches the
\* client any more; the client's other subscriptions and every other
\* client's subscriptions are unchanged; and an event is delivered only to a
\* client that holds a subscription matching it
C38_UnsubscribeStopsDelivery ==
    [][/\ \A c \in DOMAIN clients, data \in Unsubscribes :
              clients' # clients /\ handleMessage(c, data, FALSE) =>
                  /\ clients'[c] = clients[c] \ Named(data)
                  /\ \A ev \in Events :
                         ~shouldSend(clients[c] \ Named(data), ev) =>
                             ~shouldSend(clients'[c], ev)
                  /\ \A other \in DOMAIN clients \ {c} :
                         /\ other \in DOMAIN clients'
                         /\ clients'[other] = clients[other]
       /\ \A m \in Delivered :
              /\ m[1] \in DOMAIN clients
              /\ shouldSend(clients[m[1]], m[2])]_vars

\* a client that had subscribed to an execution and unsubscribed again did
\* not get an event that the other client, still subscribed, did get
C38_Witness ==
    \E c, other \in DOMAIN clients :
        \E ev \in DOMAIN emitted :
            /\ c # other
            /\ <<c, Message("subscribed", ev.executionId, Undefined)>> \in sent
            /\ executionKey(ev.executionId) \notin clients[c]
            /\ <<c, ev>> \notin sent
            /\ executionKey(ev.executionId) \in clients[other]
            /\ <<other, ev>> \in sent

====
